---- MODULE Spec2Model ----
(***************************************************************************)
(* A model of the ntfy daemon of ranfdev/Notify (ntfy-daemon/src).         *)
(*                                                                         *)
(* Spec         : one subscription. The Listener task (listener.rs) reads  *)
(*                an NDJSON stream and publishes ListenerEvents on a watch *)
(*                channel; the SubscriptionActor (subscription.rs) takes   *)
(*                them, stores messages (message_repo/mod.rs), notifies    *)
(*                and fans out to observers over a broadcast channel.      *)
(* SpecListener : the Listener task alone with its command channel, as in  *)
(*                the tests of listener.rs: against any server, and        *)
(*                against the two scripted servers of the tests with a     *)
(*                WatchStream observer.                                    *)
(* SpecNtfy     : the coordinator NtfyActor (ntfy.rs) with its map of      *)
(*                handles, the persisted subscriptions and the listener    *)
(*                tasks it spawns.                                         *)
(*                                                                         *)
(* Scheduling. The daemon runs on one current_thread tokio runtime         *)
(* (ntfy.rs:391).  An action of the model is the code a task runs between  *)
(* two awaits.  A step that waits for a timer or for the network           *)
(* (HttpRespond, SleepDone) is taken only when every task of the runtime   *)
(* that is ready has run (Quiescent); a line of the body may already be    *)
(* buffered, so ReadLine needs no such wait.                               *)
(***************************************************************************)
EXTENDS Integers, Sequences, FiniteSets, TLC

\* ---------------------------------------------------------------- bounds
MaxConn == 2        \* Spec: requests the listener issues
MaxLines == 2       \* Spec: lines the listener reads, over all its connections
MaxCmds == 1        \* Spec: commands sent to the listener
MaxDbFail == 1      \* Spec: storage failures of insert_message
LMaxConn == 2       \* SpecListener: requests the listener issues
LMaxLines == 2      \* SpecListener: lines the listener reads
LMaxCmds == 2       \* SpecListener: commands sent to the listener
MaxObserved == 4    \* events the watch observer collects
MaxInst == 3        \* SpecNtfy: listener tasks spawned
AMaxConn == 1       \* SpecActor: requests the listener issues
AMaxLines == 2      \* SpecActor: lines the listener reads
UMaxConn == 1       \* SpecUnsub: requests the listener issues
UMaxLines == 2      \* SpecUnsub: lines the listener reads
MaxUiMsgs == 3      \* SpecUi: messages the window receives
MaxFlight == 2      \* SpecUi: requests of the window in flight
RMaxAttempt == 66   \* SpecRetry: attempts the policy waits for
SecsCap == 8        \* SpecRetry: a number of seconds from here up is kept as this

\* ------------------------------------------------------ program constants
BroadcastCap == 8   \* subscription.rs:43  broadcast::channel(8)
CommandCap == 1     \* listener.rs:271     broadcast::channel(1)

MsgIds == {"A", "B"}
Times == {1, 2}
Observers == {"o1"}
Keys == {"k1", "k2", "bad"}     \* (server, topic) pairs; "bad" has an invalid topic
Scripts == {"live", "S1", "S2"}

Max(a, b) == IF a >= b THEN a ELSE b

\* Accounts: the servers, usernames and passwords of AddAccount.
Servers == {"s1", "s2"}
Usernames == {"u", "v"}
Passwords == {"p", "q"}
\* What a server answers to GET {server}/stats/auth with given credentials.
AuthAnswers == {"2xx", "401", "neterr"}
\* The listener's retry policy (listener.rs:171-176): seconds; the default
\* multiplier of the builder (retry.rs:42).
ListenerRetry == [min |-> 1, max |-> 300, multiplier |-> 1, build |-> "release"]
\* No next_delay() yet.
NoDelay == [kind |-> "none", secs |-> 0]
\* Option<Credential>: None, or Some(Credential { username, password }).
NoCred == [username |-> "none", password |-> "none"]
Cred(u, p) == [username |-> u, password |-> p]

\* The orders in which the elements of S can come.
Orders(S) == {q \in [1..Cardinality(S) -> S] : \A i, j \in DOMAIN q : i # j => q[i] # q[j]}

\* models::Subscription as SubscriptionBuilder::build makes it.
Model0 == [server |-> "s", topic |-> "t", display_name |-> "", muted |-> FALSE,
           archived |-> FALSE, reserved |-> FALSE, read_until |-> 0,
           symbolic_icon |-> "none"]
\* The new models of UpdateInfo: Spec changes the mute flag only.
MuteModels == {[Model0 EXCEPT !.muted = m] : m \in BOOLEAN}
\* SpecActor: the mute flag and the icon change on their own; the other
\* fields, with the server and the topic, change together.
NewModels ==
    {[server |-> IF dn = "n" THEN "s2" ELSE "s", topic |-> IF dn = "n" THEN "t2" ELSE "t",
      display_name |-> dn, muted |-> m, archived |-> (dn = "n"),
      reserved |-> (dn = "n"), read_until |-> IF dn = "n" THEN 1 ELSE 0,
      symbolic_icon |-> ic] :
        dn \in {"", "n"}, m \in BOOLEAN, ic \in {"none", "i"}}

\* ------------------------------------------------------------ data model
\* ConnectionState (listener.rs:100-109); the delay and the error are left out.
Unitialized == [kind |-> "Unitialized", retry_count |-> 0]
Connected == [kind |-> "Connected", retry_count |-> 0]
Reconnecting(n) == [kind |-> "Reconnecting", retry_count |-> n]

\* ListenerEvent (listener.rs:52-56).  seq and conn are history tags: the
\* number of the line on the wire and of the connection it was read from.
StateEv(s) == [type |-> "state", st |-> s.kind, rc |-> s.retry_count,
               id |-> "-", time |-> 0, seq |-> 0, conn |-> 0]
MsgEv(l, n, c) == [type |-> "msg", st |-> "-", rc |-> 0,
                   id |-> l.id, time |-> l.time, seq |-> n, conn |-> c]

\* One line of the response body, by what the two parses make of it.
InvalidLine == [kind |-> "invalid", id |-> "-", time |-> 0]
OpenLine(t) == [kind |-> "open", id |-> "-", time |-> t]
Lines == {InvalidLine}
         \cup {[kind |-> k, id |-> "-", time |-> t] :
                  k \in {"partial", "open", "keepalive"}, t \in Times}
         \cup {[kind |-> "message", id |-> i, time |-> t] : i \in MsgIds, t \in Times}

\* The lines the server of Spec sends: an open event and messages.
StreamLines == {OpenLine(1)}
               \cup {[kind |-> "message", id |-> i, time |-> t] : i \in MsgIds, t \in Times}

\* serde_json::from_str::<MinMessage> (listener.rs:229): needs id, topic, time.
MinMessageParses(l) == l.kind # "invalid"
\* serde_json::from_str::<ServerEvent> (listener.rs:233).
ServerEventParsesBroken(l) == l.kind # "invalid"
ServerEventParses(l) == l.kind \in {"open", "keepalive", "message"}

VARIABLES
    tasks,        \* the consumers of the watch channel that run on the daemon's runtime,
                  \* and "caller": a client that keeps the replies to its commands
    script,       \* what the server does: "live" (anything) or a scripted scenario
    body,         \* scripted scenario: the lines left in the response being read
    lpc,          \* where the listener task is
    since,        \* ListenerConfig.since
    retry,        \* WaitExponentialRandom.i of the running supervised loop
    state,        \* ConnectionHandler.state (shared with Listener.state)
    conn,         \* requests issued
    lastReq,      \* the since of the latest request
    nlines,       \* lines read
    restartConn,  \* conn when the last Restart was observed (0: none)
    shutdownSeen, \* the listener has received Shutdown
    cmdQ, cmdLag, \* the command channel: the retained command, receiver lagged
    cmdsSent,     \* commands sent
    lastErr,      \* the command of the last send that failed ("none": no failure)
    watch,        \* the event channel: newest value and its version
    actorVer,     \* version the subscription actor has seen
    wobsVer,      \* version the watch observer has seen (-1: nothing yet)
    wobsGot,      \* what the watch observer collected
    model,        \* SubscriptionActor.model
    subRow,       \* subscription table: the row of this (server, topic), <<>> = no row
    lastCmd,      \* the caller's last command to the actor, with its reply
    dbMsgs,       \* message table of this (server, topic): id -> time, 0 = no row
    dbFails,      \* storage failures so far
    notifs,       \* notifications sent, per id
    obsOn,        \* per observer: attached (holds a broadcast receiver)
    obsQ,         \* per observer: events retained for it on the broadcast channel
    obsLag,       \* per observer: the channel overwrote events it had not received
    obsLast,      \* per observer: seq and conn of the last Message it received
    obsCount,     \* per observer: Message events received, per id
    subsDb,       \* subscription table: the persisted (server, topic) keys
    listener_handles, \* NtfyActor.listener_handles: key -> listener instance, 0 = none
    inst,         \* the listener tasks spawned so far, in order of creation
    ntfRes,       \* the result of the coordinator's last command
    creds,        \* Credentials.creds: the cached map, server -> credential
    keyring,      \* the items of the keyring: (server, username) attributes, secret
    netDue,       \* listeners running at a network event, until they receive a Restart
    messages,     \* UI Subscription.messages: the times of the messages, as appended
    read_until,   \* UI Subscription.read_until
    unread_count, \* UI Subscription.unread_count
    flights,      \* UI: the values of the update_read_until requests in flight
    uiDone,       \* UI: the call that completed last, with its result
    rcfg,         \* WaitExponentialRandom: min, max, multiplier, and the build profile
    ri,           \* WaitExponentialRandom.i
    rdelay,       \* the outcome of the last next_delay(): a duration or a panic
    rstate,       \* supervisor: the ConnectionState it emitted last, with its delay
    rpc,          \* supervisor: "attempt", "sleep" (in retry.wait) or "panic"
    rfails,       \* supervisor: failed attempts since the policy was last new
    msgTable,     \* the store: the server table and the message rows (server, id, text)
    dbRes         \* the result of the last insert_message

credVars == <<creds, keyring>>
uiVars == <<messages, read_until, unread_count, flights, uiDone>>
retryVars == <<rcfg, ri, rdelay, rstate, rpc, rfails>>
dbVars == <<msgTable, dbRes>>
extVars == <<credVars, uiVars, retryVars, dbVars>>
envVars == <<tasks, script, extVars>>
netVars == <<netDue>>
ntfVars == <<subsDb, listener_handles, inst, ntfRes>>
cfgVars == <<envVars, ntfVars, netVars>>
srvVars == <<cfgVars, body>>
lsnVars == <<lpc, since, retry, state, conn, lastReq, nlines, restartConn, shutdownSeen>>
cmdVars == <<cmdQ, cmdLag, cmdsSent, lastErr>>
wchVars == <<watch, actorVer, wobsVer, wobsGot>>
actVars == <<model, subRow, lastCmd, dbMsgs, dbFails, notifs>>
obsVars == <<obsOn, obsQ, obsLag, obsLast, obsCount>>
subVars == <<body, lsnVars, cmdVars, wchVars, actVars, obsVars>>
vars == <<srvVars, lsnVars, cmdVars, wchVars, actVars, obsVars>>

\* The coordinator and the subscription pipeline.
daemonVars == <<ntfVars, netVars, subVars>>

\* --------------------------------------------------------------- server
\* The scenarios of the listener's tests (listener.rs:330-457): the response
\* to the n-th request.  S1: 500 "failed", then 200 with one open event.
\* S2: 200 with an unparseable line, then 200 with one open event.
ScriptResponse(s, n) ==
    IF n = 1
    THEN IF s = "S1" THEN [ok |-> FALSE, body |-> <<InvalidLine>>]
                     ELSE [ok |-> TRUE, body |-> <<InvalidLine>>]
    ELSE [ok |-> TRUE, body |-> <<OpenLine(1)>>]

Responses == IF script = "live"
             THEN {[ok |-> b, body |-> <<>>] : b \in BOOLEAN}
             ELSE {ScriptResponse(script, conn)}

\* -------------------------------------------------------------- listener
Running == lpc # "done"

\* Every consumer task of the daemon's runtime that is ready has been polled.
Quiescent ==
    /\ "actor" \in tasks => actorVer = watch.ver
    /\ "wobs" \in tasks => (wobsVer = watch.ver \/ Len(wobsGot) >= MaxObserved)

\* ConnectionHandler::set_state
SetState(s) ==
    /\ state' = s
    /\ watch' = [val |-> StateEv(s), ver |-> watch.ver + 1]

\* retry.count(): the attempt index of the policy.
RetryCount(i) == i

\* listener.rs:183-186: a new policy when the attempt lasted more than four
\* minutes (long), measured from before the request is made.
ResetRetryBroken(long, i) == i
ResetRetry(long, i) == IF long THEN 0 ELSE i

\* run_supervised_loop, the Err arm: reset after a long uptime, emit
\* Reconnecting, then sleep in retry.wait().
Fail(long) ==
    LET r == ResetRetry(long, retry) IN
    /\ retry' = r
    /\ SetState(Reconnecting(RetryCount(r)))
    /\ lpc' = "backoff"

\* recv_and_forward_loop up to execute(req).await: the request is issued.
Connect(maxConn) ==
    /\ lpc = "start"
    /\ conn < maxConn
    /\ conn' = conn + 1
    /\ lastReq' = since
    /\ lpc' = "wait_resp"
    /\ UNCHANGED <<srvVars, since, retry, state, nlines, restartConn,
                   shutdownSeen, cmdVars, wchVars, actVars, obsVars>>

\* res.error_for_status() (listener.rs:212)
ErrorForStatusBroken(r) == TRUE
ErrorForStatus(r) == r.ok

\* The response arrives: an error status (or a transport error) fails the
\* inner loop, a 2xx sets Connected and starts reading lines.
HttpRespond ==
    /\ lpc = "wait_resp"
    /\ Quiescent
    /\ \E r \in Responses, long \in BOOLEAN :
          IF ErrorForStatus(r)
          THEN /\ SetState(Connected)
               /\ lpc' = "stream"
               /\ body' = r.body
               /\ UNCHANGED retry
          ELSE /\ Fail(long)
               /\ UNCHANGED body
    /\ UNCHANGED <<cfgVars, since, conn, lastReq, nlines, restartConn,
                   shutdownSeen, cmdVars, actorVer, wobsVer, wobsGot, actVars, obsVars>>

\* listener.rs:231
SinceUpdateBroken(s, t) == t
SinceUpdate(s, t) == Max(t, s)

NextLines(lines) == IF script = "live" THEN lines
                    ELSE IF body = <<>> THEN {} ELSE {Head(body)}

\* One turn of the while loop of recv_and_forward_loop (listener.rs:225-248).
ReadLine(maxLines, lines) ==
    /\ lpc = "stream"
    /\ nlines < maxLines
    /\ \E l \in NextLines(lines), long \in BOOLEAN :
          /\ body' = IF script = "live" THEN body ELSE Tail(body)
          /\ nlines' = nlines + 1
          /\ IF ~MinMessageParses(l)
             THEN Fail(long) /\ UNCHANGED since
             ELSE /\ since' = SinceUpdate(since, l.time)
                  /\ IF ~ServerEventParses(l)
                     THEN Fail(long)
                     ELSE IF l.kind = "message"
                     THEN /\ watch' = [val |-> MsgEv(l, nlines + 1, conn),
                                       ver |-> watch.ver + 1]
                          /\ UNCHANGED <<lpc, retry, state>>
                     ELSE UNCHANGED <<lpc, retry, state, watch>>
    /\ UNCHANGED <<cfgVars, conn, lastReq, restartConn, shutdownSeen, cmdVars,
                   actorVer, wobsVer, wobsGot, actVars, obsVars>>

\* stream.next() yields an io error (listener.rs:226).
StreamError ==
    /\ lpc = "stream"
    /\ script = "live"
    /\ \E long \in BOOLEAN : Fail(long)
    /\ UNCHANGED <<srvVars, since, conn, lastReq, nlines, restartConn, shutdownSeen,
                   cmdVars, actorVer, wobsVer, wobsGot, actVars, obsVars>>

\* run_supervised_loop, the Ok arm: break (listener.rs:195-197).
AfterEofBroken == "start"
AfterEof == "done"

\* stream.next() yields None: Ok(()) ends the supervised loop and the task
\* (listener.rs:195-197, 138-141).
StreamEof ==
    /\ lpc = "stream"
    /\ script = "live" \/ body = <<>>
    /\ lpc' = AfterEof
    /\ UNCHANGED <<srvVars, since, retry, state, conn, lastReq, nlines,
                   restartConn, shutdownSeen, cmdVars, wchVars, actVars, obsVars>>

\* retry.wait() returns (retry.rs:52-55).
SleepDone ==
    /\ lpc = "backoff"
    /\ Quiescent
    /\ retry' = retry + 1
    /\ lpc' = "start"
    /\ UNCHANGED <<srvVars, since, state, conn, lastReq, nlines, restartConn,
                   shutdownSeen, cmdVars, wchVars, actVars, obsVars>>

\* ConnectionHandler::run, the command arm (listener.rs:142-156).  The
\* supervised loop future is dropped; `continue` builds a new one, with a
\* new retry policy; `break` ends the task.
AfterRestartBroken == lpc
AfterRestart == "start"
AfterShutdownBroken == "start"
AfterShutdown == "done"

RecvCmd ==
    /\ Running
    /\ cmdLag \/ cmdQ # <<>>
    /\ IF cmdLag
       THEN \* Err(RecvError::Lagged): break
            /\ cmdLag' = FALSE
            /\ lpc' = "done"
            /\ UNCHANGED <<cmdQ, retry, restartConn, shutdownSeen>>
       ELSE /\ cmdQ' = Tail(cmdQ)
            /\ UNCHANGED cmdLag
            /\ IF Head(cmdQ) = "Restart"
               THEN /\ lpc' = AfterRestart
                    /\ retry' = 0
                    /\ restartConn' = conn
                    /\ UNCHANGED shutdownSeen
               ELSE /\ lpc' = AfterShutdown
                    /\ shutdownSeen' = TRUE
                    /\ UNCHANGED <<retry, restartConn>>
    /\ UNCHANGED <<srvVars, since, state, conn, lastReq, nlines,
                   cmdsSent, lastErr, wchVars, actVars, obsVars>>

\* SubscriptionHandle::restart / shutdown (subscription.rs:75-89) on the
\* listener's broadcast channel of capacity 1 (listener.rs:271): a send fails
\* when the receiver is gone; a send on a full channel overwrites the oldest
\* command and the receiver lags.
SendCmd(c, maxCmds) ==
    /\ cmdsSent < maxCmds
    /\ cmdsSent' = cmdsSent + 1
    /\ IF ~Running
       THEN /\ lastErr' = c
            /\ UNCHANGED <<cmdQ, cmdLag>>
       ELSE /\ UNCHANGED lastErr
            /\ IF Len(cmdQ) >= CommandCap
               THEN cmdQ' = Append(Tail(cmdQ), c) /\ cmdLag' = TRUE
               ELSE cmdQ' = Append(cmdQ, c) /\ UNCHANGED cmdLag
    /\ UNCHANGED <<srvVars, lsnVars, wchVars, actVars, obsVars>>

\* ------------------------------------------------------- watch observer
\* WatchStream::new(listener.events.clone()) as in the listener's tests
\* (listener.rs:372-375): the current value first, then the newest value
\* after every change.
WatchObserve ==
    /\ "wobs" \in tasks
    /\ wobsVer # watch.ver
    /\ Len(wobsGot) < MaxObserved
    /\ wobsVer' = watch.ver
    /\ wobsGot' = Append(wobsGot, watch.val)
    /\ UNCHANGED <<srvVars, lsnVars, cmdVars, watch, actorVer, actVars, obsVars>>

\* --------------------------------------------------- subscription actor
\* Db::insert_message: UNIQUE(server, id) gives DuplicateMessage, any other
\* failure gives Db(e).
InsertOutcomes(id) ==
    (IF dbMsgs[id] # 0 THEN {"dup"} ELSE {"ok"})
    \cup (IF dbFails < MaxDbFail THEN {"dberr"} ELSE {})

\* broadcast::Sender::send on broadcast::channel(8) (subscription.rs:43): every
\* attached receiver gets the event; for a receiver with 8 events waiting the
\* oldest is overwritten and the receiver lags.  Without receivers the event
\* is dropped (the Err is ignored: `let _ =`).
Broadcast(ev) ==
    /\ obsQ' = [o \in Observers |->
                  IF ~obsOn[o] THEN obsQ[o]
                  ELSE IF Len(obsQ[o]) >= BroadcastCap
                       THEN Append(Tail(obsQ[o]), ev)
                       ELSE Append(obsQ[o], ev)]
    /\ obsLag' = [o \in Observers |->
                  obsLag[o] \/ (obsOn[o] /\ Len(obsQ[o]) >= BroadcastCap)]

\* handle_msg_event: already_stored (subscription.rs:233-249)
AlreadyStoredBroken(outcome) == outcome # "ok"
AlreadyStored(outcome) == outcome = "dup"

\* handle_msg_event: the mute check (subscription.rs:254)
ShouldNotifyBroken(m) == TRUE
ShouldNotify(m) == ~m.muted

\* SubscriptionActor::run, the event arm (subscription.rs:143-151) with
\* handle_msg_event (subscription.rs:230-275).
ActorRecvEvent ==
    /\ "actor" \in tasks
    /\ actorVer # watch.ver
    /\ actorVer' = watch.ver
    /\ LET ev == watch.val IN
       IF ev.type = "msg"
       THEN \E o \in InsertOutcomes(ev.id) :
              /\ dbMsgs' = IF o = "ok" THEN [dbMsgs EXCEPT ![ev.id] = ev.time] ELSE dbMsgs
              /\ dbFails' = IF o = "dberr" THEN dbFails + 1 ELSE dbFails
              /\ IF ~AlreadyStored(o)
                 THEN /\ notifs' = IF ShouldNotify(model)
                                   THEN [notifs EXCEPT ![ev.id] = @ + 1]
                                   ELSE notifs
                      /\ Broadcast(ev)
                 ELSE UNCHANGED <<notifs, obsQ, obsLag>>
       ELSE /\ Broadcast(ev)
            /\ UNCHANGED <<dbMsgs, dbFails, notifs>>
    /\ UNCHANGED <<srvVars, lsnVars, cmdVars, watch, wobsVer, wobsGot, model,
                   subRow, lastCmd, obsOn, obsLast, obsCount>>

\* The reply the caller of a command gets; kept only by a caller that looks
\* at it.
NoCmd == [cmd |-> "none"]
Reply(r) == lastCmd' = IF "caller" \in tasks THEN r ELSE lastCmd

\* SubscriptionCommand::ClearNotifications: Db::delete_messages, which gives
\* SubscriptionNotFound when it deleted no row.
ClearNotifications ==
    /\ dbMsgs' = [i \in MsgIds |-> 0]
    /\ Reply([cmd |-> "ClearNotifications",
              res |-> IF \E i \in MsgIds : dbMsgs[i] # 0 THEN "ok" ELSE "err"])
    /\ UNCHANGED <<srvVars, lsnVars, cmdVars, wchVars, model, subRow, dbFails,
                   notifs, obsVars>>

\* Db::update_subscription: the columns the UPDATE statement sets.
UpdateSubscription(row, sub) ==
    [row EXCEPT !.display_name = sub.display_name, !.reserved = sub.reserved,
                !.muted = sub.muted, !.archived = sub.archived,
                !.read_until = sub.read_until]

\* SubscriptionCommand::UpdateInfo.  update_subscription fails on a storage
\* error and when no row matches (SubscriptionNotFound).
UpdateInfo(new, outcomes) ==
    LET new_model == [new EXCEPT !.server = model.server, !.topic = model.topic] IN
    /\ \E res \in (IF subRow = <<>> THEN {"err"} ELSE {"ok", "err"}) \cap outcomes :
          /\ IF res = "ok"
             THEN /\ subRow' = <<UpdateSubscription(subRow[1], new_model)>>
                  /\ model' = new_model
             ELSE UNCHANGED <<subRow, model>>
          /\ Reply([cmd |-> "UpdateInfo", new |-> new, res |-> res])
    /\ UNCHANGED <<srvVars, lsnVars, cmdVars, wchVars, dbMsgs, dbFails,
                   notifs, obsVars>>

\* Db::list_messages: the rows of the topic joined with its subscription row,
\* ORDER BY time; rows of equal time come in any order.
ListMessagesBroken ==
    IF subRow = <<>> THEN {<<>>} ELSE Orders({i \in MsgIds : dbMsgs[i] # 0})
ListMessages ==
    IF subRow = <<>> THEN {<<>>}
    ELSE {q \in Orders({i \in MsgIds : dbMsgs[i] # 0}) :
             \A i, j \in DOMAIN q : i < j => dbMsgs[q[i]] <= dbMsgs[q[j]]}

\* Db::list_messages(server, topic, since) (message_repo/mod.rs:75-96): the
\* message rows of the topic joined with the subscription row of the pair,
\* WHERE time >= since ORDER BY time.
ListMessagesSince(s) ==
    IF subRow = <<>> THEN {<<>>}
    ELSE {q \in Orders({i \in MsgIds : dbMsgs[i] # 0 /\ dbMsgs[i] >= s}) :
             \A i, j \in DOMAIN q : i < j => dbMsgs[q[i]] <= dbMsgs[q[j]]}

\* SubscriptionCommand::Attach: the stored messages (none when list_messages
\* fails: unwrap_or_default), then the listener's state, and a receiver from
\* broadcast_tx.subscribe() (subscription.rs:198), which starts after the
\* events sent so far.
Attach(o, outcomes) ==
    /\ ~obsOn[o]
    /\ obsOn' = [obsOn EXCEPT ![o] = TRUE]
    /\ \E res \in outcomes :
       \E q \in (IF res = "ok" THEN ListMessages ELSE {<<>>}) :
          Reply([cmd |-> "Attach", res |-> res,
                 replay |-> [i \in 1..Len(q) |->
                                MsgEv([id |-> q[i], time |-> dbMsgs[q[i]]], 0, 0)]
                            \o <<StateEv(state)>>])
    /\ UNCHANGED <<srvVars, lsnVars, cmdVars, wchVars, model, subRow, dbMsgs,
                   dbFails, notifs, obsQ, obsLag, obsLast, obsCount>>

\* broadcast::Receiver::recv of an observer: Err(Lagged) once after an
\* overwrite, else the oldest retained event.
DeliveredBroken(o) == obsQ[o][Len(obsQ[o])]
Delivered(o) == Head(obsQ[o])

ObsRecv(o) ==
    /\ obsOn[o]
    /\ IF obsLag[o]
       THEN /\ obsLag' = [obsLag EXCEPT ![o] = FALSE]
            /\ UNCHANGED <<obsQ, obsLast, obsCount>>
       ELSE /\ obsQ[o] # <<>>
            /\ LET ev == Delivered(o) IN
               /\ obsLast' = IF ev.type = "msg"
                             THEN [obsLast EXCEPT ![o] = [seq |-> ev.seq, conn |-> ev.conn]]
                             ELSE obsLast
               /\ obsCount' = IF ev.type = "msg"
                              THEN [obsCount EXCEPT ![o][ev.id] = @ + 1]
                              ELSE obsCount
            /\ obsQ' = [obsQ EXCEPT ![o] = Tail(@)]
            /\ UNCHANGED obsLag
    /\ UNCHANGED <<srvVars, lsnVars, cmdVars, wchVars, actVars, obsOn>>

\* ------------------------------------------------------------------ spec
InitPipeline ==
    /\ body = <<>>
    /\ lpc = "start"
    /\ since = 0
    /\ retry = 0
    /\ state = Unitialized
    /\ conn = 0
    /\ lastReq = 0
    /\ nlines = 0
    /\ restartConn = 0
    /\ shutdownSeen = FALSE
    /\ cmdQ = <<>>
    /\ cmdLag = FALSE
    /\ cmdsSent = 0
    /\ lastErr = "none"
    /\ watch = [val |-> StateEv(Unitialized), ver |-> 0]
    /\ actorVer = 0
    /\ wobsVer = -1
    /\ wobsGot = <<>>
    /\ model = Model0
    /\ subRow = <<Model0>>
    /\ lastCmd = NoCmd
    /\ dbMsgs = [i \in MsgIds |-> 0]
    /\ dbFails = 0
    /\ notifs = [i \in MsgIds |-> 0]
    /\ obsOn = [o \in Observers |-> FALSE]
    /\ obsQ = [o \in Observers |-> <<>>]
    /\ obsLag = [o \in Observers |-> FALSE]
    /\ obsLast = [o \in Observers |-> [seq |-> 0, conn |-> 0]]
    /\ obsCount = [o \in Observers |-> [i \in MsgIds |-> 0]]

\* Credentials::new on an empty keyring.
InitCred ==
    /\ creds = [sv \in Servers |-> NoCred]
    /\ keyring = {}

\* The UI's Subscription object as Default builds it (src/subscription.rs:92-108).
InitUi ==
    /\ messages = <<>>
    /\ read_until = 0
    /\ unread_count = 0
    /\ flights = <<>>
    /\ uiDone = "none"

\* The retry policy of the listener, fresh.
InitRetry ==
    /\ rcfg = ListenerRetry
    /\ ri = 0
    /\ rdelay = NoDelay
    /\ rstate = [kind |-> "Unitialized", retry_count |-> 0, delay |-> 0]
    /\ rpc = "attempt"
    /\ rfails = 0

InitDb ==
    /\ msgTable = [server |-> {}, message |-> {}]
    /\ dbRes = "none"

InitExt == InitCred /\ InitUi /\ InitRetry /\ InitDb

InitCommon == InitPipeline /\ InitExt

\* The reply of the coordinator to its last command (respond_to.send).
NoRes == [cmd |-> "none", key |-> "none", res |-> "none"]
Res(c, k, r) == [cmd |-> c, key |-> k, res |-> r]

InitNtfy ==
    /\ listener_handles = [k \in Keys |-> 0]
    /\ inst = <<>>
    /\ ntfRes = NoRes
    /\ netDue = {}

\* One subscription: listener, subscription actor, observers; any server.
Init ==
    /\ tasks = {"actor"}
    /\ script = "live"
    /\ InitCommon
    /\ subsDb = {}
    /\ InitNtfy

Next ==
    \/ Connect(MaxConn)
    \/ HttpRespond
    \/ ReadLine(MaxLines, StreamLines)
    \/ StreamError
    \/ StreamEof
    \/ SleepDone
    \/ RecvCmd
    \/ SendCmd("Restart", MaxCmds)
    \/ ActorRecvEvent
    \/ ClearNotifications
    \/ \E new \in MuteModels : UpdateInfo(new, {"ok"})
    \/ \E o \in Observers : Attach(o, {"ok"})
    \/ \E o \in Observers : ObsRecv(o)

Spec == Init /\ [][Next]_vars

\* Db::remove_subscription, by the coordinator's Unsubscribe, while the
\* actor task and the handles the clients hold live on.
RowRemoved ==
    /\ subRow # <<>>
    /\ subRow' = <<>>
    /\ UNCHANGED <<srvVars, lsnVars, cmdVars, wchVars, model, lastCmd, dbMsgs,
                   dbFails, notifs, obsVars>>

\* The subscription actor with a caller that looks at the replies: every
\* command, with its failures, on one connection of the listener, up to the
\* fan-out.
InitActor ==
    /\ tasks = {"actor", "caller"}
    /\ script = "live"
    /\ InitCommon
    /\ subsDb = {}
    /\ InitNtfy

NextActor ==
    \/ Connect(AMaxConn)
    \/ HttpRespond
    \/ ReadLine(AMaxLines, StreamLines)
    \/ StreamEof
    \/ ActorRecvEvent
    \/ ClearNotifications
    \/ \E new \in NewModels : UpdateInfo(new, {"ok", "err"})
    \/ \E o \in Observers : Attach(o, {"ok", "err"})
    \/ RowRemoved

SpecActor == InitActor /\ [][NextActor]_vars

\* SubscriptionCommand::GetModel
GetModel ==
    /\ Reply([cmd |-> "GetModel", model |-> model])
    /\ UNCHANGED <<srvVars, lsnVars, cmdVars, wchVars, model, subRow, dbMsgs,
                   dbFails, notifs, obsVars>>

\* SubscriptionCommand::UpdateReadUntil: Db::update_read_until sets the
\* column of the row, and gives SubscriptionNotFound when no row matches;
\* the actor replies with the result.
UpdateReadUntil(t, outcomes) ==
    /\ \E res \in (IF subRow = <<>> THEN {"err"} ELSE {"ok", "err"}) \cap outcomes :
          /\ subRow' = IF res = "ok"
                       THEN <<[subRow[1] EXCEPT !.read_until = t]>>
                       ELSE subRow
          /\ Reply([cmd |-> "UpdateReadUntil", value |-> t, res |-> res])
    /\ UNCHANGED <<srvVars, lsnVars, cmdVars, wchVars, model, dbMsgs, dbFails,
                   notifs, obsVars>>

\* The actor with a client that marks messages as read and edits the
\* subscription starting from the model GetModel gave it.
NextReadUntil ==
    \/ GetModel
    \/ \E t \in 1..3 : UpdateReadUntil(t, {"ok", "err"})
    \/ \E new \in NewModels :
          UpdateInfo([new EXCEPT !.read_until = model.read_until], {"ok", "err"})

SpecReadUntil == InitActor /\ [][NextReadUntil]_vars

\* The listener alone: any server and no consumer, or a scripted server with
\* the WatchStream observer of the tests.
InitListener ==
    /\ \/ script = "live" /\ tasks = {}
       \/ script \in {"S1", "S2"} /\ tasks = {"wobs"}
    /\ InitCommon
    /\ subsDb = {}
    /\ InitNtfy

NextListener ==
    \/ Connect(LMaxConn)
    \/ HttpRespond
    \/ ReadLine(LMaxLines, Lines)
    \/ StreamError
    \/ StreamEof
    \/ SleepDone
    \/ RecvCmd
    \/ \E c \in {"Restart", "Shutdown"} : SendCmd(c, LMaxCmds)
    \/ WatchObserve

SpecListener == InitListener /\ [][NextListener]_vars

\* The listener with Restart as the only command and a server that never
\* ends the stream cleanly: the task has no reason to end.
NextRestart ==
    \/ Connect(LMaxConn)
    \/ HttpRespond
    \/ ReadLine(LMaxLines, Lines)
    \/ StreamError
    \/ SleepDone
    \/ RecvCmd
    \/ SendCmd("Restart", LMaxCmds)
    \/ WatchObserve

SpecRestart == InitListener /\ [][NextRestart]_vars

\* ListenerHandle::state, as the specification describes it: a GetState(reply)
\* command put in the listener's mailbox, answered by the listener task with
\* its ConnectionState.  The value is a ConnectionState, not a Result
\* (subscription.rs:197).  A listener task that has ended has dropped its
\* mailbox: the command cannot be sent, and the caller either aborts on the
\* failed send or stays waiting.
StateQueryOutcomes == IF Running THEN {"query"} ELSE {"aborted", "query"}

\* SubscriptionCommand::Attach up to `self.listener.state().await`.
AttachQueryState ==
    /\ lastCmd.cmd = "Attach" => lastCmd.res = "ok"
    /\ \E r \in StateQueryOutcomes :
          lastCmd' = [cmd |-> "Attach", res |-> r, replay |-> <<>>]
    /\ UNCHANGED <<srvVars, lsnVars, cmdVars, wchVars, model, subRow, dbMsgs,
                   dbFails, notifs, obsVars>>

\* The listener task takes GetState from its mailbox and replies; the actor
\* completes the replay with the state and answers the Attach.
ListenerGetState ==
    /\ Running
    /\ lastCmd.cmd = "Attach" /\ lastCmd.res = "query"
    /\ \E q \in ListMessages :
          lastCmd' = [cmd |-> "Attach", res |-> "ok",
                      replay |-> [i \in 1..Len(q) |->
                                     MsgEv([id |-> q[i], time |-> dbMsgs[q[i]]], 0, 0)]
                                 \o <<StateEv(state)>>]
    /\ UNCHANGED <<srvVars, lsnVars, cmdVars, wchVars, model, subRow, dbMsgs,
                   dbFails, notifs, obsVars>>

\* The listener with a client of the subscription actor that attaches again
\* and again.  The listener task polls its mailbox whenever it is not ended.
NextAttach ==
    \/ Connect(LMaxConn)
    \/ HttpRespond
    \/ ReadLine(LMaxLines, Lines)
    \/ StreamError
    \/ StreamEof
    \/ SleepDone
    \/ RecvCmd
    \/ \E c \in {"Restart", "Shutdown"} : SendCmd(c, LMaxCmds)
    \/ WatchObserve
    \/ AttachQueryState
    \/ ListenerGetState

SpecAttach == InitListener /\ [][NextAttach]_vars /\ WF_vars(ListenerGetState)

\* ------------------------------------------------------------ coordinator
\* models::Subscription::builder(topic).server(server).build(): validation.
ValidKey(k) == k # "bad"

\* list_subscriptions orders its rows (message_repo/mod.rs:124-147).
KeyOrder == <<"k1", "k2">>

\* ListenerHandle::new: a listener task with its command channel, running.
NewInst(k) == [key |-> k, running |-> TRUE, cmds |-> <<>>, lagged |-> FALSE]

\* NtfyActor::listen for the keys ks in turn: one new listener and one new
\* SubscriptionHandle each, inserted in the map under its key, whatever the
\* map holds there.
RECURSIVE ListenAll(_, _, _)
ListenAll(I, H, ks) ==
    IF ks = <<>> THEN [inst |-> I, handles |-> H]
    ELSE ListenAll(Append(I, NewInst(Head(ks))),
                   [H EXCEPT ![Head(ks)] = Len(I) + 1], Tail(ks))

\* broadcast::Sender::send on the command channel of listener i.
SendTo(I, i, c) ==
    IF Len(I[i].cmds) >= CommandCap
    THEN [I EXCEPT ![i].cmds = Append(Tail(@), c), ![i].lagged = TRUE]
    ELSE [I EXCEPT ![i].cmds = Append(@, c)]

\* The subscription table's primary key (server, topic): the INSERT of
\* insert_subscription fails for a key that has a row.
DuplicateKey(k) == k \in subsDb

\* NtfyActor::handle_subscribe, the two steps that can fail: build() on an
\* invalid topic or URL, insert_subscription on the primary key.
SubscribeErrorBroken(k) == IF ~ValidKey(k) THEN "Invalid" ELSE "none"
SubscribeError(k) ==
    IF ~ValidKey(k) THEN "Invalid"
    ELSE IF DuplicateKey(k) THEN "Db"
    ELSE "none"

\* NtfyActor::handle_subscribe
HandleSubscribe(k) ==
    /\ IF SubscribeError(k) # "none"
       THEN /\ ntfRes' = Res("Subscribe", k, SubscribeError(k))
            /\ UNCHANGED <<subsDb, listener_handles, inst>>
       ELSE /\ Len(inst) < MaxInst
            /\ subsDb' = subsDb \cup {k}
            /\ LET r == ListenAll(inst, listener_handles, <<k>>) IN
                  inst' = r.inst /\ listener_handles' = r.handles
            /\ ntfRes' = Res("Subscribe", k, "ok")
    /\ UNCHANGED <<envVars, netVars, subVars>>

\* listener_handles.write().await.remove(&WatchKey { server, topic })
RemoveKeyBroken(H, k, sendOk) == IF sendOk THEN [H EXCEPT ![k] = 0] ELSE H
RemoveKey(H, k, sendOk) == [H EXCEPT ![k] = 0]

\* NtfyActor::handle_unsubscribe
HandleUnsubscribe(k) ==
    LET h == listener_handles[k] IN
    /\ listener_handles' = RemoveKey(listener_handles, k, h = 0 \/ inst[h].running)
    /\ IF h # 0 /\ ~inst[h].running
       THEN \* sub.shutdown().await? fails: the task and its receiver are gone
            /\ ntfRes' = Res("Unsubscribe", k, "SendError")
            /\ UNCHANGED <<subsDb, inst>>
       ELSE /\ inst' = IF h # 0 THEN SendTo(inst, h, "Shutdown") ELSE inst
            /\ IF k \in subsDb
               THEN /\ subsDb' = subsDb \ {k}
                    /\ ntfRes' = Res("Unsubscribe", k, "ok")
               ELSE /\ UNCHANGED subsDb
                    /\ ntfRes' = Res("Unsubscribe", k, "SubscriptionNotFound")
    /\ UNCHANGED <<envVars, netVars, subVars>>

\* NtfyActor::handle_watch_subscribed
HandleWatchSubscribed ==
    LET ks == SelectSeq(KeyOrder, LAMBDA k : k \in subsDb)
        r == ListenAll(inst, listener_handles, ks) IN
    /\ Len(inst) + Len(ks) <= MaxInst
    /\ inst' = r.inst
    /\ listener_handles' = r.handles
    /\ ntfRes' = Res("WatchSubscribed", "none", "ok")
    /\ UNCHANGED <<envVars, netVars, subsDb, subVars>>

\* NtfyMessage::RefreshAll: restart the handles of the map one after the
\* other, in the map's order, up to the first failure.
RECURSIVE RestartAll(_, _)
RestartAll(I, ks) ==
    IF ks = <<>> THEN [inst |-> I, res |-> "ok"]
    ELSE LET h == listener_handles[Head(ks)] IN
         IF ~I[h].running THEN [inst |-> I, res |-> "SendError"]
         ELSE RestartAll(SendTo(I, h, "Restart"), Tail(ks))

RefreshAll ==
    /\ \E ks \in Orders({k \in Keys : listener_handles[k] # 0}) :
          LET r == RestartAll(inst, ks) IN
          inst' = r.inst /\ ntfRes' = Res("RefreshAll", "none", r.res)
    /\ UNCHANGED <<envVars, netVars, subsDb, listener_handles, subVars>>

\* ConnectionHandler::run of listener i, the command arm.
TaskRecvCmd(i) ==
    /\ inst[i].running
    /\ inst[i].lagged \/ inst[i].cmds # <<>>
    /\ inst' = IF inst[i].lagged \/ Head(inst[i].cmds) = "Shutdown"
               THEN [inst EXCEPT ![i].running = FALSE, ![i].cmds = <<>>,
                                 ![i].lagged = FALSE]
               ELSE [inst EXCEPT ![i].cmds = Tail(@)]
    /\ netDue' = netDue \ {i}
    /\ UNCHANGED <<envVars, subsDb, listener_handles, ntfRes, subVars>>

\* ConnectionHandler::run of listener i: the supervised loop returns, on the
\* end of the response body.
TaskEof(i) ==
    /\ inst[i].running
    /\ inst' = [inst EXCEPT ![i].running = FALSE, ![i].cmds = <<>>, ![i].lagged = FALSE]
    /\ netDue' = netDue \ {i}
    /\ UNCHANGED <<envVars, subsDb, listener_handles, ntfRes, subVars>>

\* The coordinator with the subscriptions a previous run persisted.
InitCoordinator ==
    /\ tasks = {}
    /\ script = "live"
    /\ InitCommon
    /\ subsDb \in SUBSET {k \in Keys : ValidKey(k)}
    /\ InitNtfy

NextNtfy ==
    \/ \E k \in Keys : HandleSubscribe(k)
    \/ \E k \in Keys : HandleUnsubscribe(k)
    \/ HandleWatchSubscribed
    \/ RefreshAll
    \/ \E i \in DOMAIN inst : TaskRecvCmd(i)
    \/ \E i \in DOMAIN inst : TaskEof(i)

SpecNtfy == InitCoordinator /\ [][NextNtfy]_vars

\* The key under which the coordinator's map holds the handle of the one
\* subscription of Spec, SpecActor and SpecUnsub.
PipelineKey == "k1"

\* NtfyActor::handle_unsubscribe for that subscription: the handle leaves the
\* map, Shutdown goes to its listener's command channel, and the row is
\* removed.  The subscription actor is not told: it has no command for it.
PipelineUnsubscribe ==
    LET inMap == listener_handles[PipelineKey] # 0 IN
    /\ listener_handles' = RemoveKey(listener_handles, PipelineKey, ~inMap \/ Running)
    /\ IF inMap /\ ~Running
       THEN /\ lastErr' = "Shutdown"
            /\ ntfRes' = Res("Unsubscribe", PipelineKey, "SendError")
            /\ UNCHANGED <<cmdQ, cmdLag, cmdsSent, subRow>>
       ELSE /\ IF inMap
               THEN /\ cmdsSent' = cmdsSent + 1
                    /\ IF Len(cmdQ) >= CommandCap
                       THEN cmdQ' = Append(Tail(cmdQ), "Shutdown") /\ cmdLag' = TRUE
                       ELSE cmdQ' = Append(cmdQ, "Shutdown") /\ UNCHANGED cmdLag
               ELSE UNCHANGED <<cmdQ, cmdLag, cmdsSent>>
            /\ subRow' = <<>>
            /\ ntfRes' = Res("Unsubscribe", PipelineKey,
                             IF subRow # <<>> THEN "ok" ELSE "SubscriptionNotFound")
            /\ UNCHANGED lastErr
    /\ UNCHANGED <<envVars, netVars, subsDb, inst, body, lsnVars, wchVars, model,
                   lastCmd, dbMsgs, dbFails, notifs, obsVars>>

\* One subscription that is in the coordinator's map, with its listener,
\* its actor and an observer, and the coordinator's Unsubscribe for it.
InitUnsub ==
    /\ tasks = {"actor"}
    /\ script = "live"
    /\ InitCommon
    /\ subsDb = {}
    /\ listener_handles = [k \in Keys |-> IF k = PipelineKey THEN 1 ELSE 0]
    /\ inst = <<>>
    /\ ntfRes = NoRes
    /\ netDue = {}

NextUnsub ==
    \/ Connect(UMaxConn)
    \/ HttpRespond
    \/ ReadLine(UMaxLines, StreamLines)
    \/ StreamEof
    \/ RecvCmd
    \/ PipelineUnsubscribe
    \/ ActorRecvEvent
    \/ \E o \in Observers : Attach(o, {"ok"})
    \/ \E o \in Observers : ObsRecv(o)

SpecUnsub == InitUnsub /\ [][NextUnsub]_vars


\* ---------------------------------------------------------- credentials
\* LightKeyring::create_item(.., replace = true): the item with the same
\* attributes (server, username) is replaced.
CreateItem(K, sv, u, p) ==
    {it \in K : ~(it.server = sv /\ it.username = u)}
        \cup {[server |-> sv, username |-> u, secret |-> p]}

\* LightKeyring::delete(attributes)
DeleteItem(K, sv, u) == {it \in K : ~(it.server = sv /\ it.username = u)}

\* Credentials::insert, the check against the cached map
\* (credentials.rs:193-199).
InsertAllowedBroken(c, u) == TRUE
InsertAllowed(c, u) == c = NoCred \/ c.username = u

\* Credentials::insert: the check, the keyring (krOk: create_item returns
\* Ok), then the cached map.
Insert(C, K, sv, u, p, krOk) ==
    IF ~InsertAllowed(C[sv], u)
    THEN [creds |-> C, keyring |-> K, res |-> "SingleAccountPerServer"]
    ELSE IF ~krOk
    THEN [creds |-> C, keyring |-> K, res |-> "Keyring"]
    ELSE [creds |-> [C EXCEPT ![sv] = Cred(u, p)],
          keyring |-> CreateItem(K, sv, u, p), res |-> "ok"]

\* Credentials::delete: the cached credential, the keyring (krOk: delete
\* returns Ok), then the cached map.
DeleteBroken(C, K, sv, krOk) ==
    IF C[sv] = NoCred
    THEN [creds |-> C, keyring |-> K, res |-> "NotFound"]
    ELSE IF ~krOk
    THEN [creds |-> [C EXCEPT ![sv] = NoCred], keyring |-> K, res |-> "Keyring"]
    ELSE [creds |-> [C EXCEPT ![sv] = NoCred],
          keyring |-> DeleteItem(K, sv, C[sv].username), res |-> "ok"]
Delete(C, K, sv, krOk) ==
    IF C[sv] = NoCred
    THEN [creds |-> C, keyring |-> K, res |-> "NotFound"]
    ELSE IF ~krOk
    THEN [creds |-> C, keyring |-> K, res |-> "Keyring"]
    ELSE [creds |-> [C EXCEPT ![sv] = NoCred],
          keyring |-> DeleteItem(K, sv, C[sv].username), res |-> "ok"]

\* Credentials::load, after the clear: the items of search_items inserted in
\* the map in their order (credentials.rs:171-183).
RECURSIVE LoadedMap(_, _)
LoadedMap(C, items) ==
    IF items = <<>> THEN C
    ELSE LoadedMap([C EXCEPT ![Head(items).server] =
                        Cred(Head(items).username, Head(items).secret)],
                   Tail(items))

\* The maps a load can build from the keyring.
Loads(K) == {LoadedMap([sv \in Servers |-> NoCred], q) : q \in Orders(K)}

\* Credentials::load (krOk: search_items returns Ok), as Credentials::new
\* runs it when the daemon starts again.
Load(krOk) ==
    /\ IF krOk
       THEN /\ creds' \in Loads(keyring)
            /\ ntfRes' = Res("Load", "none", "ok")
       ELSE /\ UNCHANGED creds
            /\ ntfRes' = Res("Load", "none", "Keyring")
    /\ UNCHANGED <<tasks, script, uiVars, retryVars, dbVars, keyring, subsDb, listener_handles, inst, netVars, subVars>>

\* NtfyMessage::AddAccount (ntfy.rs:203-215): credentials.insert, and the
\* reply.  auth is what the server answers to GET {server}/stats/auth with
\* these credentials: the handler does not ask.
AddAccount(sv, u, p, auth, krOk) ==
    LET r == Insert(creds, keyring, sv, u, p, krOk) IN
    /\ creds' = r.creds
    /\ keyring' = r.keyring
    /\ ntfRes' = Res("AddAccount", sv, r.res)
    /\ UNCHANGED <<tasks, script, uiVars, retryVars, dbVars, subsDb, listener_handles, inst, netVars, subVars>>

\* NtfyMessage::RemoveAccount (ntfy.rs:217-220)
RemoveAccount(sv, krOk) ==
    LET r == Delete(creds, keyring, sv, krOk) IN
    /\ creds' = r.creds
    /\ keyring' = r.keyring
    /\ ntfRes' = Res("RemoveAccount", sv, r.res)
    /\ UNCHANGED <<tasks, script, uiVars, retryVars, dbVars, subsDb, listener_handles, inst, netVars, subVars>>

\* The coordinator with two persisted subscriptions and the account commands.
InitAccounts ==
    /\ tasks = {}
    /\ script = "live"
    /\ InitCommon
    /\ subsDb = {"k1", "k2"}
    /\ InitNtfy

NextAccounts ==
    \/ HandleWatchSubscribed
    \/ RefreshAll
    \/ \E i \in DOMAIN inst : TaskRecvCmd(i)
    \/ \E sv \in Servers, u \in Usernames, p \in Passwords, auth \in AuthAnswers,
          krOk \in BOOLEAN : AddAccount(sv, u, p, auth, krOk)
    \/ \E sv \in Servers, krOk \in BOOLEAN : RemoveAccount(sv, krOk)
    \/ \E krOk \in BOOLEAN : Load(krOk)

SpecAccounts == InitAccounts /\ [][NextAccounts]_vars

\* ------------------------------------------- the window's Subscription
\* src/subscription.rs: the object behind one row of the sidebar.  messages
\* holds the times of the list store's items, flights the requests sent to
\* the daemon and not yet answered, oldest first.
UiTimes == {1, 2, 3}

ReadFlight(v) == [op |-> "read", value |-> v]
ClearFlight == [op |-> "clear", value |-> 0]

\* Subscription::last_message: the time of the last item, 0 for none.
LastMessage(list) == IF list = <<>> THEN 0 ELSE list[Len(list)]

\* Subscription::update_unread_count
UpdateUnreadCount(list, ru) ==
    IF list # <<>> /\ LastMessage(list) > ru THEN 1 ELSE 0

\* TopicWatcher::send_message: append, then update_unread_count.
UiSendMessage(t) ==
    /\ Len(messages) < MaxUiMsgs
    /\ messages' = Append(messages, t)
    /\ unread_count' = UpdateUnreadCount(messages', read_until)
    /\ UNCHANGED <<read_until, flights, uiDone, tasks, script, credVars, retryVars, dbVars, daemonVars>>

\* Subscription::flag_all_as_read up to its await: with no message it
\* returns Ok at once; otherwise it sends UpdateReadUntil(last.time).
UiFlagAllAsRead ==
    /\ IF messages = <<>>
       THEN /\ uiDone' = "read_ok"
            /\ UNCHANGED flights
       ELSE /\ Len(flights) < MaxFlight
            /\ flights' = Append(flights, ReadFlight(LastMessage(messages)))
            /\ UNCHANGED uiDone
    /\ UNCHANGED <<messages, read_until, unread_count, tasks, script, credVars, retryVars, dbVars, daemonVars>>

\* flag_all_as_read after its await (ok: the daemon answered Ok).
UiFlagDone(ok) ==
    /\ flights # <<>>
    /\ Head(flights).op = "read"
    /\ flights' = Tail(flights)
    /\ IF ok
       THEN /\ read_until' = Head(flights).value
            /\ unread_count' = UpdateUnreadCount(messages, read_until')
            /\ uiDone' = "read_ok"
       ELSE /\ uiDone' = "read_err"
            /\ UNCHANGED <<read_until, unread_count>>
    /\ UNCHANGED <<messages, tasks, script, credVars, retryVars, dbVars, daemonVars>>

\* Subscription::clear_notifications up to its await.
UiClearNotifications ==
    /\ Len(flights) < MaxFlight
    /\ flights' = Append(flights, ClearFlight)
    /\ UNCHANGED <<messages, read_until, unread_count, uiDone, tasks, script, credVars, retryVars, dbVars, daemonVars>>

\* clear_notifications after its await: remove_all, and nothing else.
UiClearDone(ok) ==
    /\ flights # <<>>
    /\ Head(flights).op = "clear"
    /\ flights' = Tail(flights)
    /\ IF ok
       THEN /\ messages' = <<>>
            /\ uiDone' = "clear_ok"
       ELSE /\ uiDone' = "clear_err"
            /\ UNCHANGED messages
    /\ UNCHANGED <<read_until, unread_count, tasks, script, credVars, retryVars, dbVars, daemonVars>>

InitSubscriptionUi ==
    /\ tasks = {}
    /\ script = "live"
    /\ InitCommon
    /\ subsDb = {"k1"}
    /\ InitNtfy

NextUi ==
    \/ \E t \in UiTimes : UiSendMessage(t)
    \/ UiFlagAllAsRead
    \/ \E ok \in BOOLEAN : UiFlagDone(ok)
    \/ UiClearNotifications
    \/ \E ok \in BOOLEAN : UiClearDone(ok)

SpecUi == InitSubscriptionUi /\ [][NextUi]_vars

\* ------------------------------------------------- the network monitor
\* NetworkMonitorProxy (application.rs:436-452): the desktop reports that the
\* network became available.  SharedEnv keeps the proxy (ntfy.rs:404) and
\* NtfyActor::run has no arm for it, so the coordinator takes no step; netDue
\* remembers which running listeners have had no command since the event.
NetworkEvent ==
    /\ netDue' = netDue \cup {i \in DOMAIN inst : inst[i].running}
    /\ UNCHANGED <<envVars, ntfVars, subVars>>

NextNet ==
    \/ HandleWatchSubscribed
    \/ RefreshAll
    \/ \E i \in DOMAIN inst : TaskRecvCmd(i)
    \/ NetworkEvent

\* The runtime polls every listener task that has a command to receive.
SpecNet ==
    /\ InitCoordinator
    /\ [][NextNet]_vars
    /\ \A i \in 1..MaxInst : WF_vars(i \in DOMAIN inst /\ TaskRecvCmd(i))

\* ------------------------------------------------ WaitExponentialRandom
\* retry.rs.  Seconds are u64; SecsCap stands for every number of seconds
\* from SecsCap up, which is above every max of RetryConfigs, so that the
\* clamp against max gives what the exact number gives.
Multipliers == {1, 2, 3}
RetryConfigs ==
    {[min |-> a, max |-> b, multiplier |-> m, build |-> bd] :
        a \in {0, 1, 2}, b \in {2, 5}, m \in Multipliers, bd \in {"debug", "release"}}

Min(a, b) == IF a <= b THEN a ELSE b

Panic == [kind |-> "panic", secs |-> 0]
Delay(d) == [kind |-> "delay", secs |-> d]

\* 1 << i on u64: a shift by 64 or more panics with overflow checks (debug)
\* and is masked to i % 64 without them (release).
ShiftPanics(cfg, i) == i >= 64 /\ cfg.build = "debug"
ShiftAmount(i) == i % 64

\* (1 << sh) * m leaves u64 when m >= 2^(64 - sh); the multipliers are
\* below 2^10.
MulOverflows(sh, m) == sh > 53 /\ m >= 2^(64 - sh)

\* 2^sh * m for sh < 64, capped at SecsCap.
CappedProduct(sh, m) ==
    IF m = 0 THEN 0
    ELSE IF sh >= 10 THEN SecsCap
    ELSE Min(2^sh * m, SecsCap)

\* (1 << sh) * m as the build without overflow checks computes it: modulo
\* 2^64, which is 2^sh * (m % 2^(64 - sh)).
WrappedProduct(sh, m) ==
    IF MulOverflows(sh, m)
    THEN CappedProduct(sh, m % (2^(64 - sh)))
    ELSE CappedProduct(sh, m)

\* WaitExponentialRandom::next_delay: what a call can do.  gen_range panics
\* on an empty range.
NextDelays(cfg, i) ==
    IF ShiftPanics(cfg, i) THEN {Panic}
    ELSE IF MulOverflows(ShiftAmount(i), cfg.multiplier) /\ cfg.build = "debug"
    THEN {Panic}
    ELSE LET secs == WrappedProduct(ShiftAmount(i), cfg.multiplier) IN
         IF cfg.min > secs THEN {Panic}
         ELSE {Delay(Min(Max(d, cfg.min), cfg.max)) : d \in cfg.min..secs}

\* A call of next_delay.
RNextDelay ==
    /\ rdelay.kind # "panic"
    /\ rdelay' \in NextDelays(rcfg, ri)
    /\ UNCHANGED <<rcfg, ri, rstate, rpc, rfails, tasks, script, credVars, uiVars, dbVars, daemonVars>>

\* WaitExponentialRandom::wait: sleep(next_delay()), then i += 1.
RWait ==
    /\ rdelay.kind # "panic"
    /\ ri < RMaxAttempt
    /\ rdelay' \in NextDelays(rcfg, ri)
    /\ ri' = IF rdelay' = Panic THEN ri ELSE ri + 1
    /\ UNCHANGED <<rcfg, rstate, rpc, rfails, tasks, script, credVars, uiVars, dbVars, daemonVars>>

InitWaitExponentialRandom ==
    /\ tasks = {}
    /\ script = "live"
    /\ InitPipeline
    /\ InitCred /\ InitUi /\ InitDb
    /\ rcfg \in RetryConfigs
    /\ ri = 0
    /\ rdelay = NoDelay
    /\ rstate = [kind |-> "Unitialized", retry_count |-> 0, delay |-> 0]
    /\ rpc = "attempt"
    /\ rfails = 0
    /\ subsDb = {"k1"}
    /\ InitNtfy

NextRetry ==
    \/ RNextDelay
    \/ RWait

SpecRetry == InitWaitExponentialRandom /\ [][NextRetry]_vars

\* ---------------------------------------------- the supervisor's delays
\* run_supervised_loop (listener.rs:169-199) with its retry policy: min 1 s,
\* the default multiplier, and a max of a few seconds in place of 300 s.
SupervisorConfigs == {c \in RetryConfigs : c.min = 1 /\ c.multiplier = 1}

\* ConnectionState::Reconnecting with its delay (listener.rs:100-109).
ReconnectingFor(n, d) == [kind |-> "Reconnecting", retry_count |-> n, delay |-> d]

\* The Err arm up to retry.wait(): the reset after a long uptime, then
\* set_state(Reconnecting { retry.count(), retry.next_delay() }) and the
\* next_delay() of the log line; each call samples anew.
SupFail(long) ==
    /\ rpc = "attempt"
    /\ ri < RMaxAttempt
    /\ ri' = ResetRetry(long, ri)
    /\ \E d1, d2 \in NextDelays(rcfg, ri') :
          IF d1 = Panic
          THEN /\ rpc' = "panic"
               /\ rdelay' = Panic
               /\ UNCHANGED <<rstate, rfails>>
          ELSE /\ rstate' = ReconnectingFor(RetryCount(ri'), d1.secs)
               /\ rdelay' = d2
               /\ rpc' = "sleep"
               /\ rfails' = IF long THEN 1 ELSE rfails + 1
    /\ UNCHANGED <<rcfg, tasks, script, credVars, uiVars, dbVars, daemonVars>>

\* retry.wait() (listener.rs:193): sleeps the delay of its own next_delay().
SupWait ==
    /\ rpc = "sleep"
    /\ rdelay' \in NextDelays(rcfg, ri)
    /\ ri' = ri + 1
    /\ rpc' = "attempt"
    /\ UNCHANGED <<rcfg, rstate, rfails, tasks, script, credVars, uiVars, dbVars, daemonVars>>

InitSupervisor ==
    /\ tasks = {}
    /\ script = "live"
    /\ InitPipeline
    /\ InitCred /\ InitUi /\ InitDb
    /\ rcfg \in SupervisorConfigs
    /\ ri = 0
    /\ rdelay = NoDelay
    /\ rstate = [kind |-> "Unitialized", retry_count |-> 0, delay |-> 0]
    /\ rpc = "attempt"
    /\ rfails = 0
    /\ subsDb = {"k1"}
    /\ InitNtfy

NextSupervisor ==
    \/ \E long \in BOOLEAN : SupFail(long)
    \/ SupWait

SpecSupervisor == InitSupervisor /\ [][NextSupervisor]_vars

\* --------------------------------------------------- the message store
\* message_repo/mod.rs.  A message's JSON text is its id and the rest (text).
Texts == {"x", "y"}
StorageFailures == {"none", "server", "insert"}
Row(sv, id, text) == [server |-> sv, id |-> id, text |-> text]

\* The UNIQUE constraint of the message table on (server, id).
UniqueViolated(rows, sv, id) == \E r \in rows : r.server = sv /\ r.id = id

\* insert_message's match on what the INSERT returned (mod.rs:65-73).
InsertResultBroken(sq) == IF sq = "ok" THEN "ok" ELSE "Db"
InsertResult(sq) ==
    CASE sq = "unique" -> "DuplicateMessage"
      [] sq = "error" -> "Db"
      [] OTHER -> "ok"

\* Db::insert_message(server, json_data).  fail: the statement, if any, that
\* the storage fails on for another reason than the constraint.
InsertMessage(sv, id, text, fail) ==
    IF fail = "server"
    THEN /\ dbRes' = "Db"
         /\ UNCHANGED msgTable
         /\ UNCHANGED <<tasks, script, credVars, uiVars, retryVars, daemonVars>>
    ELSE LET sq == IF fail = "insert" THEN "error"
                   ELSE IF UniqueViolated(msgTable.message, sv, id) THEN "unique"
                   ELSE "ok" IN
         /\ msgTable' = [server |-> msgTable.server \cup {sv},
                         message |-> IF sq = "ok"
                                     THEN msgTable.message \cup {Row(sv, id, text)}
                                     ELSE msgTable.message]
         /\ dbRes' = InsertResult(sq)
         /\ UNCHANGED <<tasks, script, credVars, uiVars, retryVars, daemonVars>>

InitMessageRepo ==
    /\ tasks = {}
    /\ script = "live"
    /\ InitCommon
    /\ subsDb = {"k1"}
    /\ InitNtfy

NextDb ==
    \E sv \in Servers, id \in MsgIds, text \in Texts, fail \in StorageFailures :
        InsertMessage(sv, id, text, fail)

SpecDb == InitMessageRepo /\ [][NextDb]_vars

\* ------------------------------------------------------------- properties
IsPrefix(a, b) == Len(a) <= Len(b) /\ \A i \in 1..Len(a) : a[i] = b[i]

\* What the watch observer collected, as connection-state kinds ("-" for a
\* Message event).
ObservedKinds == [i \in 1..Len(wobsGot) |-> wobsGot[i].st]
ExpectedKinds == <<"Unitialized", "Reconnecting", "Connected">>

Received(o) == obsCount[o]["A"] + obsCount[o]["B"]

\* C1 (Spec): each message id gives at most one notification and at most one
\* Message event to any observer, whatever the commands and storage failures.
C1_AtMostOnce ==
    \A i \in MsgIds : notifs[i] <= 1 /\ \A o \in Observers : obsCount[o][i] <= 1

\* C2 (SpecNtfy): for every persisted (server, topic) at most one listener
\* task is running.
C2_OneListenerPerKey ==
    \A k \in subsDb :
        Cardinality({i \in DOMAIN inst : inst[i].key = k /\ inst[i].running}) <= 1

\* C3 (SpecListener): since never decreases, and the since of a request is
\* at least the since of the request before it.
C3_SinceMonotone == [][since' >= since /\ lastReq' >= lastReq]_vars

\* A second request, after a Restart, that carries an advanced since.
C3_Witness == conn >= 2 /\ lastReq = 2 /\ restartConn >= 1

\* C4 (SpecListener): a non-2xx response, then a 2xx with only an open event:
\* the observer collects Unitialized, Reconnecting, Connected, in that order
\* and nothing else, and all three once the listener task has ended.
C4_StatusErrorSequence ==
    (script = "S1" /\ cmdsSent = 0) =>
        /\ IsPrefix(ObservedKinds, ExpectedKinds)
        /\ (lpc = "done" /\ wobsVer = watch.ver) => ObservedKinds = ExpectedKinds

C4_Witness == script = "S1" /\ cmdsSent = 0 /\ lpc = "done" /\ Len(wobsGot) = 3

\* C5 (SpecListener): a 2xx response with an unparseable first line, then a
\* valid stream: the observer collects Unitialized, Reconnecting, Connected,
\* in that order and nothing else.
C5_InvalidLineSequence ==
    (script = "S2" /\ cmdsSent = 0) => IsPrefix(ObservedKinds, ExpectedKinds)

\* C6 (Spec): no connection-state event is replaced on the listener's event
\* channel before the subscription actor has taken it.
C6_NoStateOverwritten ==
    [][(watch'.ver # watch.ver /\ watch.val.type = "state")
          => actorVer = watch.ver]_vars

\* C7 (Spec): no Message event is replaced on the listener's event channel
\* before the subscription actor has taken it.
C7_NoMessageReplaced ==
    [][(watch'.ver # watch.ver /\ watch.val.type = "msg")
          => actorVer = watch.ver]_vars

\* C8 (Spec): every Message event an observer receives was emitted by the
\* server after the Message event the observer received before it.
C8_ServerOrder ==
    [][\A o \in Observers :
          obsCount'[o] # obsCount[o] => obsLast'[o].seq > obsLast[o].seq]_vars

C8_Witness == \E o \in Observers : Received(o) >= 2 /\ obsLast[o].seq >= 2

\* C9 (Spec): once the listener has observed a Restart, every Message event
\* an observer receives was read from a connection opened after it.
C9_NoPreRestartDelivery ==
    [][\A o \in Observers :
          obsCount'[o] # obsCount[o] => obsLast'[o].conn > restartConn]_vars

\* C10 (SpecListener): the listener task ends when it receives Shutdown, and
\* from then on it issues no request, emits no event and does not run again.
C10_ShutdownFinal ==
    [][/\ shutdownSeen' => lpc' = "done"
       /\ shutdownSeen => (conn' = conn /\ watch' = watch /\ state' = state)]_vars

\* Shutdown was received, and a Restart sent after it failed.
C10_Witness == shutdownSeen /\ lastErr = "Restart" /\ lpc = "done"

\* C11 (SpecListener): when the response body ends without an error the
\* listener task ends and issues no further request; the listener enters a
\* backoff wait only on an error, which it reports as Reconnecting.
C11_CleanEofEnds ==
    [][/\ (lpc = "stream" /\ lpc' # "stream" /\ state' = state
             /\ cmdQ' = cmdQ /\ cmdLag' = cmdLag) => lpc' = "done"
       /\ lpc = "done" => (lpc' = "done" /\ conn' = conn)
       /\ (lpc' = "backoff" /\ lpc # "backoff")
             => (state'.kind = "Reconnecting" /\ watch'.ver = watch.ver + 1)]_vars

\* The task ended on the end of the body: no command was sent.
C11_Witness == lpc = "done" /\ cmdsSent = 0 /\ conn >= 1 /\ state = Connected

\* C12 (SpecListener): a Restart the listener receives while it streams or
\* sleeps in a backoff wait takes it straight to its next request.
C12_RestartSkipsBackoff ==
    [][(Running /\ ~cmdLag /\ cmdQ # <<>> /\ Head(cmdQ) = "Restart"
          /\ cmdQ' = Tail(cmdQ))
          => (lpc' = "start" /\ restartConn' = conn /\ UNCHANGED conn)]_vars

\* After a failure the listener got a Restart and issued its next request
\* with no backoff wait completed (SleepDone would have counted a retry).
C12_Witness ==
    /\ restartConn >= 1 /\ conn = restartConn + 1 /\ lpc = "wait_resp"
    /\ state.kind = "Reconnecting" /\ retry = 0

\* C13 (SpecListener): a listener that is restarted goes through Reconnecting
\* before the Connected of its next connection.
C13_RestartGoesThroughReconnecting ==
    [][(restartConn >= 1 /\ conn = restartConn + 1 /\ lpc = "wait_resp"
          /\ lpc' = "stream" /\ state.kind # "Unitialized")
          => state.kind = "Reconnecting"]_vars

\* The actor takes a Message event from the listener's channel.
TakesMessage == actorVer' # actorVer /\ watch.val.type = "msg"
\* The event goes to every attached observer, once.
FannedOut(ev) ==
    \A o \in Observers : obsQ'[o] = IF obsOn[o] THEN Append(obsQ[o], ev) ELSE obsQ[o]
Notified(id) == notifs' = [notifs EXCEPT ![id] = @ + 1]

\* C14 (SpecActor): while the subscription is muted a new message is stored,
\* fanned out once and not notified; the mute flag changes only with a
\* successful UpdateInfo, to the flag of its new model.
C14_MutedMessage ==
    [][/\ (TakesMessage /\ model.muted /\ dbMsgs[watch.val.id] = 0
             /\ dbFails' = dbFails)
          => /\ notifs' = notifs
             /\ dbMsgs' = [dbMsgs EXCEPT ![watch.val.id] = watch.val.time]
             /\ FannedOut(watch.val)
       /\ model'.muted # model.muted
          => /\ lastCmd'.cmd = "UpdateInfo" /\ lastCmd'.res = "ok"
             /\ lastCmd'.new.muted = model'.muted]_vars

\* A message handled while muted: stored, with an observer, never notified.
C14_Witness ==
    /\ model.muted
    /\ \E i \in MsgIds : /\ dbMsgs[i] # 0 /\ notifs[i] = 0
                         /\ \E o \in Observers : \E k \in DOMAIN obsQ[o] :
                               obsQ[o][k].type = "msg" /\ obsQ[o][k].id = i

\* C15 (SpecActor): a message whose insert fails with a storage error is
\* notified (unless muted) and fanned out like a stored one; a duplicate is
\* neither notified nor fanned out.
C15_StorageErrorStillDelivers ==
    [][TakesMessage =>
          IF dbFails' = dbFails /\ dbMsgs[watch.val.id] # 0
          THEN notifs' = notifs /\ obsQ' = obsQ
          ELSE /\ IF model.muted THEN notifs' = notifs ELSE Notified(watch.val.id)
               /\ FannedOut(watch.val)
               /\ dbFails' # dbFails => dbMsgs' = dbMsgs]_vars

\* A message that was notified and fanned out though its insert failed.
C15_Witness ==
    /\ dbFails >= 1
    /\ \E i \in MsgIds : /\ dbMsgs[i] = 0 /\ notifs[i] >= 1
                         /\ \E o \in Observers : \E k \in DOMAIN obsQ[o] :
                               obsQ[o][k].type = "msg" /\ obsQ[o][k].id = i

Stored == {i \in MsgIds : dbMsgs[i] # 0}
\* rp holds the stored messages in ascending time, then the listener's state.
FullReplay(rp) ==
    LET n == Len(rp) IN
    /\ n = Cardinality(Stored) + 1
    /\ rp[n] = StateEv(state)
    /\ \A i \in Stored : \E k \in 1..(n - 1) :
          rp[k].type = "msg" /\ rp[k].id = i /\ rp[k].time = dbMsgs[i]
    /\ \A j, k \in 1..(n - 1) : j < k => rp[j].time <= rp[k].time

C17_UpdateInfoMerges ==
    [][\A new \in NewModels :
          UpdateInfo(new, {"ok", "err"}) =>
             LET m == [new EXCEPT !.server = model.server, !.topic = model.topic] IN
             IF lastCmd'.res = "ok"
             THEN model' = m /\ subRow' = <<m>>
             ELSE model' = model /\ subRow' = subRow]_vars


\* C18 (SpecNtfy): a Subscribe with an invalid topic or URL, or with a key
\* that is already persisted, returns an error and leaves the map, the
\* persisted subscriptions and the listeners as they were; any other Subscribe
\* succeeds, with the row persisted, one new listener spawned and its handle
\* in the map under the key.
C18_SubscribeAllOrNothing ==
    [][\A k \in Keys :
          HandleSubscribe(k) =>
             IF ~ValidKey(k) \/ k \in subsDb
             THEN /\ ntfRes'.res \notin {"ok", "none"}
                  /\ UNCHANGED <<subsDb, listener_handles, inst>>
             ELSE /\ ntfRes'.res = "ok"
                  /\ subsDb' = subsDb \cup {k}
                  /\ inst' = Append(inst, NewInst(k))
                  /\ listener_handles' =
                        [listener_handles EXCEPT ![k] = Len(inst')]]_vars

\* A Subscribe of a key that is persisted and listened to was rejected.
C18_Witness ==
    /\ ntfRes.cmd = "Subscribe" /\ ntfRes.res = "Db"
    /\ ntfRes.key \in subsDb
    /\ listener_handles[ntfRes.key] # 0
    /\ inst[listener_handles[ntfRes.key]].running

\* C19 (SpecNtfy): when Unsubscribe returns, the map has no entry for the
\* key, and the result is the error of the step that failed: the Shutdown
\* send when the listener task is gone, else remove_subscription when no row
\* is persisted, else success.
C19_UnsubscribeRemovesKey ==
    [][\A k \in Keys :
          HandleUnsubscribe(k) =>
             LET h == listener_handles[k] IN
             /\ listener_handles'[k] = 0
             /\ ntfRes'.res = IF h # 0 /\ ~inst[h].running THEN "SendError"
                              ELSE IF k \notin subsDb THEN "SubscriptionNotFound"
                              ELSE "ok"]_vars

\* An Unsubscribe failed on the Shutdown send: the key left the map and its
\* row is still persisted.
C19_Witness ==
    /\ ntfRes.cmd = "Unsubscribe" /\ ntfRes.res = "SendError"
    /\ listener_handles[ntfRes.key] = 0
    /\ ntfRes.key \in subsDb


\* C20 (SpecUnsub): once Unsubscribe has returned successfully, no
\* notification is sent and no Message event goes to an observer of the
\* subscription, whatever the listener had emitted before it saw Shutdown.
C20_SilentAfterUnsubscribe ==
    [][(ntfRes.cmd = "Unsubscribe" /\ ntfRes.res = "ok")
          => /\ notifs' = notifs
             /\ ~(TakesMessage /\ obsQ' # obsQ)]_vars


\* C21 (SpecAccounts): AddAccount changes the credential store only when the
\* server answers the probe GET {server}/stats/auth with a 2xx; with another
\* answer it returns an error and the store is as before.
C21_ProbeBeforeInsert ==
    [][\A sv \in Servers, u \in Usernames, p \in Passwords, auth \in AuthAnswers,
          krOk \in BOOLEAN :
          AddAccount(sv, u, p, auth, krOk) =>
             /\ <<creds', keyring'>> # <<creds, keyring>> => auth = "2xx"
             /\ auth # "2xx" => ntfRes'.res # "ok"]_vars

\* C22 (SpecAccounts): a successful AddAccount sends Restart to every
\* running listener.
C22_AddAccountRestarts ==
    [][\A sv \in Servers, u \in Usernames, p \in Passwords, auth \in AuthAnswers,
          krOk \in BOOLEAN :
          (AddAccount(sv, u, p, auth, krOk) /\ ntfRes'.res = "ok") =>
             \A i \in DOMAIN inst :
                inst[i].running => inst'[i] = SendTo(inst, i, "Restart")[i]]_vars

\* The keyring and the cached map hold at most one credential per server.
OnePerServer ==
    \A a, b \in keyring : a.server = b.server => a = b

\* C23 (SpecAccounts): insert fails on a different username, and when the
\* keyring refuses the item, and leaves the store as it was; otherwise it
\* succeeds and the credential of the server has the new password, in the
\* map and in the keyring; the store holds at most one credential per server.
C23_InsertSingleAccount ==
    /\ []OnePerServer
    /\ [][\A sv \in Servers, u \in Usernames, p \in Passwords, auth \in AuthAnswers,
             krOk \in BOOLEAN :
             AddAccount(sv, u, p, auth, krOk) =>
                IF (creds[sv] # NoCred /\ creds[sv].username # u) \/ ~krOk
                THEN ntfRes'.res # "ok" /\ UNCHANGED <<creds, keyring>>
                ELSE /\ ntfRes'.res = "ok"
                     /\ creds' = [creds EXCEPT ![sv] = Cred(u, p)]
                     /\ [server |-> sv, username |-> u, secret |-> p] \in keyring'
                     /\ \A it \in keyring' : it.server = sv => it.secret = p]_vars

\* An insert with another username was refused for a server that has a
\* credential.
C23_Witness ==
    /\ ntfRes.cmd = "AddAccount" /\ ntfRes.res = "SingleAccountPerServer"
    /\ creds[ntfRes.key] = Cred("u", "q")
    /\ [server |-> ntfRes.key, username |-> "u", secret |-> "q"] \in keyring

\* C24 (SpecAccounts): the cached map is the map a load builds from the
\* keyring, after every insert, delete and load, failed ones included.
C24_CacheMatchesKeyring == Loads(keyring) = {creds}

\* A delete failed on the keyring with a credential stored for another
\* server too.
C24_Witness ==
    /\ ntfRes.cmd = "RemoveAccount" /\ ntfRes.res = "Keyring"
    /\ \A sv \in Servers : creds[sv] # NoCred


\* C25: after flag_all_as_read completes, unread_count is 0, and it stays 0
\* until a message with time greater than read_until is received, whatever
\* arrived while the UpdateReadUntil request was in flight.
C25_ReadMeansNoUnread ==
    [][ /\ (UiFlagDone(TRUE) \/ (messages = <<>> /\ UiFlagAllAsRead))
            => unread_count' = 0
        /\ (unread_count = 0 /\ unread_count' # 0)
            => \E t \in UiTimes : t > read_until /\ UiSendMessage(t) ]_vars

\* C26: flag_all_as_read changes read_until only to a greater value, in
\* whatever order messages with differing times were received.
C26_ReadUntilMonotonic ==
    [][ \A ok \in BOOLEAN : UiFlagDone(ok) =>
            \/ read_until' = read_until
            \/ read_until' > read_until ]_vars


\* C27: every network-monitor event causes a RefreshAll: each listener that
\* is live at the event and whose handle the coordinator holds eventually
\* receives a Restart for it (or ends, or is replaced).
C27_NetworkEventRestarts ==
    \A i \in 1..MaxInst :
        (i \in netDue /\ listener_handles[inst[i].key] = i)
            ~> (i \notin netDue \/ listener_handles[inst[i].key] # i)


\* C28: for every attempt index i and every configuration with min <= max
\* (and min within the interval's upper end), next_delay returns d with
\* min <= d <= min(max, 2^i * multiplier), and wait increases i by one.
C28_DelayWithinBounds ==
    [][ (rcfg.min <= rcfg.max /\ rcfg.min <= CappedProduct(ri, rcfg.multiplier)) =>
           /\ (RNextDelay \/ RWait) =>
                 /\ rdelay'.kind = "delay"
                 /\ rcfg.min <= rdelay'.secs
                 /\ rdelay'.secs <= Min(rcfg.max, CappedProduct(ri, rcfg.multiplier))
           /\ RWait => ri' = ri + 1 ]_vars


\* C29: an inner-loop error after an uptime of more than 4 minutes resets
\* the retry policy before Reconnecting is emitted, which then carries
\* retry_count 0 and a delay sampled at index 0; after a shorter uptime the
\* index is kept, and every completed wait adds one to it.
C29_ResetAfterLongUptime ==
    [][ /\ \A long \in BOOLEAN :
              (lpc # "backoff" /\ Fail(long)) =>
                  /\ retry' = (IF long THEN 0 ELSE retry)
                  /\ state' = Reconnecting(retry')
        /\ SleepDone => retry' = retry + 1 ]_vars

\* The second attempt failed after a long uptime, with no command sent.
C29_Witness ==
    /\ conn = 2
    /\ cmdsSent = 0
    /\ lpc = "backoff"
    /\ retry = 0
    /\ state = Reconnecting(0)


\* C30: insert_message for a (server, id) already stored returns
\* DuplicateMessage and leaves the message rows as they are, the first text
\* kept; otherwise, the same id under another server included, the row is
\* stored.  A storage failure returns Db and stores nothing.
C30_DuplicateKeepsFirst ==
    [][ \A sv \in Servers, id \in MsgIds, text \in Texts, fail \in StorageFailures :
          InsertMessage(sv, id, text, fail) =>
            IF fail # "none"
            THEN dbRes' = "Db" /\ msgTable'.message = msgTable.message
            ELSE IF \E r \in msgTable.message : r.server = sv /\ r.id = id
            THEN dbRes' = "DuplicateMessage" /\ msgTable'.message = msgTable.message
            ELSE /\ dbRes' = "ok"
                 /\ msgTable'.message = msgTable.message \cup {Row(sv, id, text)} ]_vars

\* A duplicate was refused while the same id is stored under both servers.
C30_Witness ==
    /\ dbRes = "DuplicateMessage"
    /\ \E id \in MsgIds, t1, t2 \in Texts :
          {Row("s1", id, t1), Row("s2", id, t2)} \subseteq msgTable.message


\* C31: list_messages(server, topic, since) returns exactly the stored
\* messages of the pair with time >= since, in ascending order of time,
\* whether or not the pair has a subscription row.
C31_ListSinceComplete ==
    \A s \in 0..3 :
        LET wanted == {i \in MsgIds : dbMsgs[i] # 0 /\ dbMsgs[i] >= s} IN
        \A q \in ListMessagesSince(s) :
            /\ {q[i] : i \in DOMAIN q} = wanted
            /\ Len(q) = Cardinality(wanted)
            /\ \A i, j \in DOMAIN q : i < j => dbMsgs[q[i]] <= dbMsgs[q[j]]


\* C32: on every inner-loop error the supervisor emits one Reconnecting
\* state before it sleeps, whose retry_count is the number of failed attempts
\* since the last reset, and the delay it then sleeps is the delay carried in
\* that state.
C32_SleepsEmittedDelay ==
    [][ /\ \A long \in BOOLEAN :
              (SupFail(long) /\ rpc' = "sleep") =>
                  /\ rstate'.kind = "Reconnecting"
                  /\ rstate'.retry_count = (IF long THEN 0 ELSE rfails)
        /\ SupWait => rdelay' = Delay(rstate.delay) ]_vars

\* C39: after any number of consecutive failed attempts, 64 and more
\* included, the policy yields a delay within [min, max] and the supervisor
\* does not abort while computing it.
C39_NoAbortInDelay ==
    /\ rpc # "panic"
    /\ rdelay.kind = "delay" => (rcfg.min <= rdelay.secs /\ rdelay.secs <= rcfg.max)


\* C33: a line that fails the MinMessage parse aborts the inner loop with
\* since unchanged; a line that parses as MinMessage and fails the ServerEvent
\* parse aborts it after since was advanced to max(since, time); open and
\* keepalive lines advance since the same way and emit no event; a message
\* line advances since and is emitted.
C33_LineOutcomes ==
    [][ \A l \in Lines :
          (l \in NextLines(Lines) /\ ReadLine(LMaxLines, {l})) =>
             CASE l.kind = "invalid" ->
                     /\ since' = since
                     /\ lpc' = "backoff"
                     /\ state'.kind = "Reconnecting"
               [] l.kind = "partial" ->
                     /\ since' = Max(since, l.time)
                     /\ lpc' = "backoff"
                     /\ state'.kind = "Reconnecting"
               [] l.kind \in {"open", "keepalive"} ->
                     /\ since' = Max(since, l.time)
                     /\ UNCHANGED <<watch, lpc, state>>
               [] OTHER ->
                     /\ since' = Max(since, l.time)
                     /\ watch'.val = MsgEv(l, nlines', conn)
                     /\ UNCHANGED <<lpc, state>> ]_vars

\* The scripted server's unparseable first line ended the first connection
\* with since still 0.
C33_Witness ==
    /\ script = "S2"
    /\ conn = 1
    /\ nlines = 1
    /\ lpc = "backoff"
    /\ since = 0
    /\ state.kind = "Reconnecting"


\* C34: a listener survives any number of Restart commands sent in quick
\* succession: Restart alone never makes the listener task end.
C34_RestartNeverEnds == lpc # "done"


\* C35: whenever the listener's current state is Connected, its task is
\* running with an open response stream; a listener whose task has ended is
\* never reported as Connected.
C35_ConnectedMeansStreaming == state.kind = "Connected" => lpc = "stream"


\* The Message events of id in a sequence of events.
MsgCount(evs, id) ==
    Cardinality({i \in DOMAIN evs : evs[i].type = "msg" /\ evs[i].id = id})

\* C36: for an observer that attaches at any point, every message persisted
\* for the topic reaches it exactly once, in the replay or on the live
\* stream: none falls in a gap between the two and none appears in both.
C36_ReplayOrLiveOnce ==
    \A o \in Observers :
        (obsOn[o] /\ lastCmd.cmd = "Attach" /\ lastCmd.res = "ok") =>
            \A id \in MsgIds :
                dbMsgs[id] # 0 =>
                    MsgCount(lastCmd.replay, id) + MsgCount(obsQ[o], id) = 1


\* C37: after successful UpdateInfo and UpdateReadUntil commands the model
\* of GetModel equals the persisted row; after UpdateReadUntil(t) succeeds
\* GetModel reports read_until = t, and a later UpdateInfo does not write
\* back an older read_until.
C37_ReadUntilInModel ==
    [][ /\ \A t \in 1..3 : UpdateReadUntil(t, {"ok"}) => model'.read_until = t
        /\ GetModel => lastCmd'.model.read_until = subRow[1].read_until
        /\ \A new \in NewModels :
              UpdateInfo([new EXCEPT !.read_until = model.read_until], {"ok"})
                  => subRow'[1].read_until >= subRow[1].read_until ]_vars

\* C38: Unsubscribe(server, topic) removes the persisted row whenever the row
\* exists, also when the listener of the key has already terminated and the
\* Shutdown cannot be sent; a key unsubscribed this way has no handle after a
\* later WatchSubscribed.
C38_UnsubscribeRemovesRow ==
    [][ /\ \A k \in Keys :
              (HandleUnsubscribe(k) /\ k \in subsDb) => k \notin subsDb'
        /\ \A k \in Keys :
              (HandleWatchSubscribed /\ ntfRes.cmd = "Unsubscribe" /\ ntfRes.key = k)
                  => listener_handles'[k] = 0 ]_vars

====
